---- MODULE Spec2Model ----
(***************************************************************************)
(* Verification model of GGChe/fir-filter-adder-tree:                      *)
(*   - tb/cocotb/test_fir.py   run_fir, float_to_q15, q15_to_float         *)
(*   - src/filter_design.py    coefficient quantizer, export_coeffs_hex    *)
(*   - debug_filter.py         hex import                                  *)
(*   - librelane/run_librelane.py  run_flow                                *)
(* The RTL the testbench drives is not part of the Python sources; the     *)
(* datapath (DutEdge and its helpers) follows the streaming contract of    *)
(* the design document.                                                    *)
(***************************************************************************)
EXTENDS Integers, Sequences, FiniteSets, TLC

VARIABLES
    \* ---- run_fir (test_fir.py) ----
    pc,         \* await the coroutine is suspended at
    x_q15,      \* argument of the current call
    i,          \* number of samples driven so far by the feeding loop
    cnt,        \* iterations completed of the current range() loop
    fir_out,    \* the list collected by the call
    out_src,    \* ghost: for each collected output, the index of its input
    dirty,      \* ghost: the call before left the delay line loaded
    rst_edges,  \* ghost: edges of this call seen with rst=1 and tvalid=0
    dut,        \* the signals of the device under test and its registers
    hw,         \* the datapath's design constants
    \* ---- quantizers ----
    qx,         \* the float value being quantized
    qpc,        \* which conversion has been applied
    qfrac,      \* frac_bits of design_bandpass_fir_filter
    b_q, b_rec, \* design_bandpass_fir_filter's results
    q15, q15f,  \* float_to_q15's and q15_to_float's results
    \* ---- hex export / import ----
    hpc, coeffs, hexfile, imported,
    \* ---- run_flow ----
    fpc, single_step, until_step, steps_to_run, state, nrun

firVars   == <<pc, x_q15, i, cnt, fir_out, out_src, dirty, rst_edges, dut, hw>>
quantVars == <<qx, qpc, qfrac, b_q, b_rec, q15, q15f>>
hexVars   == <<hpc, coeffs, hexfile, imported>>
flowVars  == <<fpc, single_step, until_step, steps_to_run, state, nrun>>
vars      == <<firVars, quantVars, hexVars, flowVars>>

notFir    == <<quantVars, hexVars, flowVars>>
notQuant  == <<firVars, hexVars, flowVars>>
notHex    == <<firVars, quantVars, flowVars>>
notFlow   == <<firVars, quantVars, hexVars>>

(***************************************************************************)
(* Bounds of the model                                                     *)
(***************************************************************************)
MaxLen        == 2      \* longest free-form input sequence
MaxImpulseLen == 6      \* longest unit-impulse input sequence
MaxLatency    == 2      \* largest of the short pipeline latencies
MaxDelta      == 6      \* half-width of the windows of float inputs, in quarter LSBs
MaxCoeffs     == 2      \* longest coefficient array exported

Max(a, b) == IF a > b THEN a ELSE b
Min(a, b) == IF a < b THEN a ELSE b

RECURSIVE Pow2(_)
Pow2(n) == IF n = 0 THEN 1 ELSE 2 * Pow2(n - 1)

(***************************************************************************)
(* Idle values of the parts a specification does not exercise              *)
(***************************************************************************)
NoFloat == [num |-> 0, den |-> 1]

QuantIdle ==
    /\ qx = NoFloat /\ qpc = "off" /\ qfrac = 0 /\ b_q = 0 /\ b_rec = NoFloat
    /\ q15 = 0 /\ q15f = NoFloat

HexIdle == hpc = "off" /\ coeffs = <<>> /\ hexfile = <<>> /\ imported = <<>>

FlowIdle ==
    /\ fpc = "off" /\ single_step = "None" /\ until_step = "None"
    /\ steps_to_run = <<>> /\ state = <<>> /\ nrun = 0

(***************************************************************************)
(* The datapath behind the streaming handshake (design document, 4.5)      *)
(***************************************************************************)
WORD_BITS == 16

\* The designs the testbench is run against: coefficient array and the
\* number of fractional bits the accumulator is shifted right by.
DutDesigns ==
    { [coeffs |-> <<1, 2, 3, 2, 1>>, frac_bits |-> 3],
      [coeffs |-> <<-3, 5>>,         frac_bits |-> 2] }

\* A signed value reduced to the two's-complement word the channel carries.
ToWord(v) == ((v + Pow2(WORD_BITS - 1)) % Pow2(WORD_BITS)) - Pow2(WORD_BITS - 1)

\* Arithmetic shift right: floor division by 2^n, also of negative values.
AShr(v, n) == v \div Pow2(n)

RECURSIVE MacFrom(_, _, _)
MacFrom(c, taps, k) ==
    IF k > Len(c) THEN 0 ELSE c[k] * taps[k] + MacFrom(c, taps, k + 1)

\* Multiply-accumulate of the delay line against the coefficient array.
Mac(c, taps) == MacFrom(c, taps, 1)

ZeroTaps(h) == [k \in 1..Len(h.coeffs) |-> 0]

\* One rising clock edge of the datapath, sampling the signals the testbench
\* drove before the edge.  A synchronous reset clears the delay line, the
\* pipeline and the output valid.  An accepted sample is shifted into the
\* delay line, its result enters the pipeline and leaves it, valid, exactly
\* hw.latency edges after the edge that accepted it.
DutEdge(d, h) ==
    IF d.rst
    THEN [d EXCEPT !.taps = ZeroTaps(h), !.pipe = <<>>,
                   !.m_axis_fir_tvalid = FALSE, !.m_axis_fir_tdata = 0,
                   !.m_src = 0]
    ELSE LET aged  == [k \in 1..Len(d.pipe) |->
                          [d.pipe[k] EXCEPT !.age = @ + 1]]
             leave == aged # <<>> /\ Head(aged).age = h.latency
             rest  == IF leave THEN Tail(aged) ELSE aged
             taps2 == IF d.s_axis_fir_tvalid
                      THEN <<d.s_axis_fir_tdata>>
                               \o SubSeq(d.taps, 1, Len(d.taps) - 1)
                      ELSE d.taps
             y     == ToWord(AShr(Mac(h.coeffs, taps2), h.frac_bits))
             pipe2 == IF d.s_axis_fir_tvalid
                      THEN Append(rest, [data |-> y, age |-> 0,
                                         src |-> d.s_src])
                      ELSE rest
         IN [d EXCEPT !.taps = taps2, !.pipe = pipe2,
                      !.m_axis_fir_tvalid = leave,
                      !.m_axis_fir_tdata =
                          IF leave THEN Head(aged).data ELSE @,
                      !.m_src = IF leave THEN Head(aged).src ELSE @]

(***************************************************************************)
(* run_fir (tb/cocotb/test_fir.py)                                         *)
(***************************************************************************)
RESET_CYCLES_Short == 5 - 1

RESET_CYCLES == 5
DRAIN_CYCLES == 300

\* lines 70-73: the signals driven before the reset loop.
ApplyReset_NoRst(d) ==
    [d EXCEPT !.rst = FALSE, !.s_axis_fir_tdata = 0,
              !.s_axis_fir_tvalid = FALSE, !.m_axis_fir_tready = TRUE,
              !.s_src = 0]

ApplyReset(d) ==
    [d EXCEPT !.rst = TRUE, !.s_axis_fir_tdata = 0,
              !.s_axis_fir_tvalid = FALSE, !.m_axis_fir_tready = TRUE,
              !.s_src = 0]

\* lines 85-86: one input sample presented with tvalid asserted.
DriveSample_Zero(d, sample, idx) ==
    [d EXCEPT !.s_axis_fir_tdata = 0, !.s_axis_fir_tvalid = TRUE,
              !.s_src = idx]

DriveSample(d, sample, idx) ==
    [d EXCEPT !.s_axis_fir_tdata = sample, !.s_axis_fir_tvalid = TRUE,
              !.s_src = idx]

\* line 95: input validity deasserted for the drain.
StopInput(d) == [d EXCEPT !.s_axis_fir_tvalid = FALSE]

\* lines 89-91 and 99-101: the output is appended when tvalid is read high.
CollectOutput_Always(out, valid, val) == Append(out, val)

CollectOutput_Front(out, valid, val) ==
    IF valid THEN <<val>> \o out ELSE out

CollectOutput(out, valid, val) ==
    IF valid THEN Append(out, val) ELSE out

\* The sequences the model calls run_fir with: every sequence of at most
\* MaxLen samples over SampleVals, and unit impulses of the designs' scales.
SampleVals == {-5, 8}

Impulse(n, s) == [k \in 1..n |-> IF k = 1 THEN s ELSE 0]

Inputs ==
    UNION { [1..n -> SampleVals] : n \in 0..MaxLen }
    \cup { Impulse(n, Pow2(g.frac_bits)) :
               n \in 1..MaxImpulseLen, g \in DutDesigns }

\* Pipeline latencies: the short ones, and one longer than the drain loop.
Latencies == (1..MaxLatency) \cup {DRAIN_CYCLES + 1}

\* What the registers may hold before the first reset.
PowerOn(h) ==
    { [rst |-> FALSE, s_axis_fir_tdata |-> 0, s_axis_fir_tvalid |-> FALSE,
       m_axis_fir_tready |-> FALSE, s_src |-> 0,
       taps |-> [k \in 1..Len(h.coeffs) |-> j], pipe |-> p,
       m_axis_fir_tvalid |-> v, m_axis_fir_tdata |-> j, m_src |-> 0] :
      j \in {0, 7}, v \in BOOLEAN,
      p \in {<<>>, <<[data |-> 7, age |-> 0, src |-> 0]>>} }

FirInit ==
    /\ pc = "idle" /\ x_q15 = <<>> /\ i = 0 /\ cnt = 0
    /\ fir_out = <<>> /\ out_src = <<>> /\ dirty = FALSE
    /\ rst_edges = 0
    /\ hw \in { [coeffs |-> g.coeffs, frac_bits |-> g.frac_bits,
                 latency |-> l] : g \in DutDesigns, l \in Latencies }
    /\ dut \in PowerOn(hw)

FirIdle ==
    /\ pc = "off" /\ x_q15 = <<>> /\ i = 0 /\ cnt = 0
    /\ fir_out = <<>> /\ out_src = <<>> /\ dirty = FALSE
    /\ rst_edges = 0 /\ hw = [coeffs |-> <<>>, frac_bits |-> 0, latency |-> 1]
    /\ dut = [rst |-> FALSE]

\* Ghost: one more edge seen with reset asserted and input valid deasserted.
CountReset(d, n) == IF d.rst /\ ~d.s_axis_fir_tvalid THEN n + 1 ELSE n

\* lines 66-76: the call drives the reset values and awaits the first edge.
\* test_fir_only (lines 126-133) calls again once the call before returned.
Call(x) ==
    /\ pc \in {"idle", "done"}
    /\ x_q15' = x
    /\ dut' = ApplyReset(dut)
    /\ dirty' = (pc = "done" /\ dut.taps # ZeroTaps(hw))
    /\ pc' = "reset" /\ cnt' = 0 /\ i' = 0 /\ rst_edges' = 0
    /\ fir_out' = <<>> /\ out_src' = <<>>
    /\ UNCHANGED hw
    /\ UNCHANGED notFir

\* lines 75-79: an edge of the reset loop; after the last one rst is released
\* and the call awaits one more edge.
ResetEdge ==
    /\ pc = "reset"
    /\ rst_edges' = CountReset(dut, rst_edges)
    /\ cnt' = cnt + 1
    /\ IF cnt + 1 < RESET_CYCLES
       THEN /\ dut' = DutEdge(dut, hw)
            /\ pc' = "reset"
       ELSE /\ dut' = [DutEdge(dut, hw) EXCEPT !.rst = FALSE]
            /\ pc' = "release"
    /\ UNCHANGED <<x_q15, i, fir_out, out_src, dirty, hw>>
    /\ UNCHANGED notFir

\* The head of the feeding loop (lines 84-87) or, when no sample is left,
\* of the drain loop (lines 95-98): the signals driven before the next await.
NextDrive(d, x, k) ==
    IF k < Len(x) THEN DriveSample(d, x[k + 1], k + 1) ELSE StopInput(d)

NextPc(x, k) == IF k < Len(x) THEN "feed" ELSE "drain"

\* lines 79-87: the edge after the release; fir_out is created and the
\* first sample presented.
ReleaseEdge ==
    /\ pc = "release"
    /\ rst_edges' = CountReset(dut, rst_edges)
    /\ fir_out' = <<>> /\ out_src' = <<>>
    /\ dut' = NextDrive(DutEdge(dut, hw), x_q15, 0)
    /\ pc' = NextPc(x_q15, 0)
    /\ i' = IF Len(x_q15) > 0 THEN 1 ELSE 0
    /\ cnt' = 0
    /\ UNCHANGED <<x_q15, dirty, hw>>
    /\ UNCHANGED notFir

\* lines 87-91: an edge of the feeding loop, the read of the output and the
\* next sample (or the end of the input, line 95).
FeedEdge ==
    /\ pc = "feed"
    /\ LET d == DutEdge(dut, hw) IN
        /\ fir_out' = CollectOutput(fir_out, d.m_axis_fir_tvalid,
                                    d.m_axis_fir_tdata)
        /\ out_src' = CollectOutput(out_src, d.m_axis_fir_tvalid, d.m_src)
        /\ dut' = NextDrive(d, x_q15, i)
    /\ pc' = NextPc(x_q15, i)
    /\ i' = IF i < Len(x_q15) THEN i + 1 ELSE i
    /\ cnt' = 0
    /\ rst_edges' = CountReset(dut, rst_edges)
    /\ UNCHANGED <<x_q15, dirty, hw>>
    /\ UNCHANGED notFir

\* lines 97-105: an edge of the drain loop and the read of the output; after
\* the last one the call returns fir_out.
DrainEdge ==
    /\ pc = "drain"
    /\ LET d == DutEdge(dut, hw) IN
        /\ fir_out' = CollectOutput(fir_out, d.m_axis_fir_tvalid,
                                    d.m_axis_fir_tdata)
        /\ out_src' = CollectOutput(out_src, d.m_axis_fir_tvalid, d.m_src)
        /\ dut' = d
    /\ cnt' = cnt + 1
    /\ pc' = IF cnt + 1 < DRAIN_CYCLES THEN "drain" ELSE "done"
    /\ rst_edges' = CountReset(dut, rst_edges)
    /\ UNCHANGED <<x_q15, i, dirty, hw>>
    /\ UNCHANGED notFir

ClockEdge == ResetEdge \/ ReleaseEdge \/ FeedEdge \/ DrainEdge

FirNext ==
    \/ \E x \in Inputs : Call(x)
    \/ ResetEdge
    \/ ReleaseEdge
    \/ FeedEdge
    \/ DrainEdge

InitFir == FirInit /\ QuantIdle /\ HexIdle /\ FlowIdle

SpecFir == InitFir /\ [][FirNext]_vars

\* The simulator's clock never stops: an edge that is awaited arrives.
SpecFirFair == InitFir /\ [][FirNext]_vars /\ WF_vars(ClockEdge)

(***************************************************************************)
(* Reference: direct convolution of the input with the coefficients       *)
(***************************************************************************)
RECURSIVE ConvFrom(_, _, _, _)
ConvFrom(c, x, n, k) ==
    IF k > Len(c) THEN 0
    ELSE (IF n - k + 1 >= 1 THEN c[k] * x[n - k + 1] ELSE 0)
         + ConvFrom(c, x, n, k + 1)

\* The output word of input n.
RefSample(x, h, n) == ToWord(AShr(ConvFrom(h.coeffs, x, n, 1), h.frac_bits))

\* Input n is read back after edge n + latency; the last read of a call
\* follows edge Len(x) + DRAIN_CYCLES.
RefCount(x, h) == Min(Len(x), Max(0, Len(x) + DRAIN_CYCLES - h.latency))

RefOut(x, h) == [n \in 1..RefCount(x, h) |-> RefSample(x, h, n)]

IsUnitImpulse(x, h) ==
    /\ Len(x) >= Len(h.coeffs)
    /\ x = Impulse(Len(x), Pow2(h.frac_bits))

C2_OutputOrder ==
    /\ Len(out_src) = Len(fir_out)
    /\ \A k \in 1..Len(fir_out) :
           out_src[k] = k /\ fir_out[k] = RefSample(x_q15, hw, k)

\* Some outputs were appended while feeding, the last while draining.
C2_Witness ==
    /\ pc = "drain" /\ cnt = hw.latency
    /\ Len(x_q15) > hw.latency
    /\ Len(fir_out) = Len(x_q15)
    /\ \E k \in 1..Len(fir_out) : fir_out[k] # 0

PhaseRank(p) ==
    CASE p = "idle"    -> 0
      [] p = "reset"   -> 1
      [] p = "release" -> 1
      [] p = "feed"    -> 2
      [] p = "drain"   -> 3
      [] p = "done"    -> 4
      [] OTHER         -> 0

C9_RunIndependent == pc = "done" => fir_out = RefOut(x_q15, hw)

\* A second call that started with a delay line the first left loaded.
C9_Witness ==
    /\ pc = "done" /\ dirty
    /\ \E k \in 1..Len(fir_out) : fir_out[k] # 0

(***************************************************************************)
(* Floating-point values, as exact rationals [num, den], den > 0.  A value *)
(* with den = 0 stands for one whose scaled magnitude is 2^31 or more.     *)
(***************************************************************************)
Abs(n) == IF n < 0 THEN -n ELSE n

RECURSIVE GCD(_, _)
GCD(a, b) == IF b = 0 THEN a ELSE GCD(b, a % b)

Rat(n, d) == [num |-> n, den |-> d]

Beyond32(r) == r.den = 0

\* r * k for an integer k > 0.
RatMulInt(r, k) ==
    IF Beyond32(r) THEN r
    ELSE LET g == GCD(r.den, k) IN Rat(r.num * (k \div g), r.den \div g)

\* a < b
RatLess(a, b) ==
    CASE Beyond32(a) -> a.num < 0
      [] Beyond32(b) -> b.num > 0
      [] OTHER -> LET g == GCD(a.den, b.den)
                  IN a.num * (b.den \div g) < b.num * (a.den \div g)

RatLeq(a, b) == ~RatLess(b, a)

\* |a - b| of two finite values.
RatAbsDiff(a, b) ==
    LET g == GCD(a.den, b.den)
    IN Rat(Abs(a.num * (b.den \div g) - b.num * (a.den \div g)),
           (a.den \div g) * b.den)

INT32_MAX == 2147483647
INT32_MIN == -INT32_MAX - 1

\* np.round: to the nearest integer, ties to the even one.
NpRound_Floor(r) ==
    IF Beyond32(r) THEN r ELSE Rat(r.num \div r.den, 1)

NpRound(r) ==
    IF Beyond32(r) THEN r
    ELSE LET f   == r.num \div r.den
             rem == r.num - f * r.den
         IN Rat(IF 2 * rem < r.den THEN f
                ELSE IF 2 * rem > r.den THEN f + 1
                ELSE IF f % 2 = 0 THEN f ELSE f + 1, 1)

\* .astype(np.int32) of an integer-valued float.  Outside the range of int32
\* the conversion is not defined: the builds in use give INT32_MIN (x86) or
\* the nearest bound (saturating conversions).
AsTypeInt32(r) ==
    IF Beyond32(r) THEN {INT32_MIN, IF r.num > 0 THEN INT32_MAX ELSE INT32_MIN}
    ELSE {r.num}

\* np.clip on integers.
NpClipInt_None(v, lo, hi) == v

NpClipInt(v, lo, hi) == IF v < lo THEN lo ELSE IF v > hi THEN hi ELSE v

\* np.clip on floats.
NpClip(x, lo, hi) ==
    IF RatLess(x, lo) THEN lo ELSE IF RatLess(hi, x) THEN hi ELSE x

\* .astype(np.int16) of an integer: the low 16 bits, as a signed value.
AsTypeInt16(v) == ((v + 32768) % 65536) - 32768

(***************************************************************************)
(* design_bandpass_fir_filter, lines 37-46 (src/filter_design.py)          *)
(***************************************************************************)
\* line 37
CoeffScale(frac_bits) == Pow2(frac_bits)

\* line 38: the values np.round(b_float * scale).astype(np.int32) can take.
CoeffRound32(b_float, frac_bits) ==
    AsTypeInt32(NpRound(RatMulInt(b_float, CoeffScale(frac_bits))))

\* line 41
CoeffSaturate(r32) == AsTypeInt16(NpClipInt(r32, -32768, 32767))

\* line 46
CoeffRec(bq, frac_bits) == Rat(bq, CoeffScale(frac_bits))

(***************************************************************************)
(* float_to_q15 / q15_to_float (tb/cocotb/test_fir.py)                     *)
(***************************************************************************)
FRAC_BITS == 15
SCALE == Pow2(FRAC_BITS)

\* 0.999969
CLIP_LIMIT == Rat(999969, 1000000)

\* lines 14-16
float_to_q15(x) ==
    LET clipped == NpClip(x, Rat(-CLIP_LIMIT.num, CLIP_LIMIT.den), CLIP_LIMIT)
    IN AsTypeInt16(NpRound(RatMulInt(clipped, SCALE)).num)

\* lines 19-20
q15_to_float(q) == Rat(AsTypeInt16(q), SCALE)

(***************************************************************************)
(* The float inputs of the quantizers                                      *)
(***************************************************************************)
\* Inputs lie on a grid of a quarter of the Q15 LSB.
XDen == 4 * 32768

\* Grid points around which the inputs are taken: 0, a tie in mid-range and
\* both ends of the 16-bit range (32767.5 LSBs).
XCentres == {0, 65538, -65538, 131070, -131070}

XSet ==
    { Rat(c + d, XDen) : c \in XCentres, d \in (-MaxDelta)..MaxDelta }
    \cup { Rat(1, 10), Rat(2, 10), Rat(4, 10), Rat(136000, XDen),
           Rat(-136000, XDen) }
    \cup { Rat(1, 0), Rat(-1, 0) }

FracBitsSet == {3, 15}

QuantInit ==
    /\ qx \in XSet /\ qpc = "in" /\ qfrac = 0
    /\ b_q = 0 /\ b_rec = NoFloat /\ q15 = 0 /\ q15f = NoFloat

DesignQuantize(frac_bits) ==
    /\ qpc = "in"
    /\ \E r32 \in CoeffRound32(qx, frac_bits) :
          /\ b_q' = CoeffSaturate(r32)
          /\ b_rec' = CoeffRec(CoeffSaturate(r32), frac_bits)
    /\ qfrac' = frac_bits
    /\ qpc' = "coef"
    /\ UNCHANGED <<qx, q15, q15f>>
    /\ UNCHANGED notQuant

FloatToQ15 ==
    /\ qpc = "in"
    /\ q15' = float_to_q15(qx)
    /\ qpc' = "q15"
    /\ UNCHANGED <<qx, qfrac, b_q, b_rec, q15f>>
    /\ UNCHANGED notQuant

Q15ToFloat ==
    /\ qpc = "q15"
    /\ q15f' = q15_to_float(q15)
    /\ qpc' = "back"
    /\ UNCHANGED <<qx, qfrac, b_q, b_rec, q15>>
    /\ UNCHANGED notQuant

QuantNext ==
    \/ \E fb \in FracBitsSet : DesignQuantize(fb)
    \/ FloatToQ15
    \/ Q15ToFloat

InitQuant == QuantInit /\ FirIdle /\ HexIdle /\ FlowIdle

SpecQuant == InitQuant /\ [][QuantNext]_vars

(***************************************************************************)
(* C4 - saturation                                                         *)
(***************************************************************************)
WordMin == -32768
WordMax == 32767

\* round(x * 2^frac_bits) is above the upper / below the lower bound.
RoundsAbove(x, frac_bits) ==
    RatLess(Rat(WordMax, 1), NpRound(RatMulInt(x, Pow2(frac_bits))))
RoundsBelow(x, frac_bits) ==
    RatLess(NpRound(RatMulInt(x, Pow2(frac_bits))), Rat(WordMin, 1))

ScaledWithin(x, frac_bits, lo, hi) ==
    /\ ~Beyond32(x)
    /\ RatLeq(lo, RatMulInt(x, Pow2(frac_bits)))
    /\ RatLeq(RatMulInt(x, Pow2(frac_bits)), hi)

\* |y - x| <= 1 / (2 * 2^frac_bits)
WithinHalfLsb(y, x, frac_bits) ==
    RatLeq(RatAbsDiff(y, x), Rat(1, 2 * Pow2(frac_bits)))

\* C5 as stated: for x*scale within [-32768, 32767] both round trips return
\* a value within 1/(2*scale) of x.
C5_RoundTrip_AsStated ==
    /\ (qpc = "coef" /\ ScaledWithin(qx, qfrac, Rat(WordMin, 1), Rat(WordMax, 1)))
          => WithinHalfLsb(b_rec, qx, qfrac)
    /\ (qpc = "back" /\ ScaledWithin(qx, FRAC_BITS, Rat(WordMin, 1), Rat(WordMax, 1)))
          => WithinHalfLsb(q15f, qx, FRAC_BITS)

\* C5 amended: the coefficient round trip (b_q, b_rec) is within 1/(2*scale)
\* of x for x*scale within [-32768, 32767]; the sample round trip
\* (float_to_q15, q15_to_float) for x*scale within [-32767.5, 32767].
C5_RoundTrip ==
    /\ (qpc = "coef" /\ ScaledWithin(qx, qfrac, Rat(WordMin, 1), Rat(WordMax, 1)))
          => WithinHalfLsb(b_rec, qx, qfrac)
    /\ (qpc = "back" /\ ScaledWithin(qx, FRAC_BITS, Rat(-65535, 2), Rat(WordMax, 1)))
          => WithinHalfLsb(q15f, qx, FRAC_BITS)

\* A tie in mid-range, rounded to the even neighbour and converted back.
C5_Witness ==
    /\ qpc = "back" /\ qx = Rat(65538, XDen)
    /\ q15 = 16384 /\ q15f = Rat(16384, SCALE)

(***************************************************************************)
(* export_coeffs_hex (src/filter_design.py) and the import loop of         *)
(* analyze_filter (debug_filter.py).  A line is a sequence of characters.  *)
(***************************************************************************)
HexDigits ==
    <<"0", "1", "2", "3", "4", "5", "6", "7",
      "8", "9", "A", "B", "C", "D", "E", "F">>

\* np.uint16(c) of an int16 element: its two's-complement bit pattern.
NpUint16(c) == c % 65536

RECURSIVE HexOf(_)
HexOf(u) ==
    IF u < 16 THEN <<HexDigits[u + 1]>>
    ELSE HexOf(u \div 16) \o <<HexDigits[(u % 16) + 1]>>

RECURSIVE ZeroPad(_, _)
ZeroPad(str, width) ==
    IF Len(str) < width THEN ZeroPad(<<"0">> \o str, width) ELSE str

\* line 87: f"{np.uint16(c):04X}\n"
HexLine(c) == ZeroPad(HexOf(NpUint16(c)), 4) \o <<"\n">>

\* lines 85-87: the lines written, in the order of the array.
export_coeffs_hex(cs) == [k \in 1..Len(cs) |-> HexLine(cs[k])]

\* str.strip() of a line: the characters without the surrounding whitespace.
RECURSIVE Strip(_)
Strip(str) ==
    IF str = <<>> THEN str
    ELSE IF Head(str) \in {" ", "\n"} THEN Strip(Tail(str))
    ELSE IF str[Len(str)] \in {" ", "\n"} THEN Strip(SubSeq(str, 1, Len(str) - 1))
    ELSE str

DigitValue(ch) == (CHOOSE k \in 1..16 : HexDigits[k] = ch) - 1

\* int(str, 16) of a string of hex digits.
RECURSIVE ParseHex(_)
ParseHex(str) ==
    IF str = <<>> THEN 0
    ELSE 16 * ParseHex(SubSeq(str, 1, Len(str) - 1)) + DigitValue(str[Len(str)])

\* debug_filter.py lines 33-34
ToSigned_OffByOne(val) == IF val > 32768 THEN val - 65536 ELSE val

ToSigned(val) == IF val > 32767 THEN val - 65536 ELSE val

\* debug_filter.py lines 30-35
import_coeffs_hex(lines) ==
    [k \in 1..Len(lines) |-> ToSigned(ParseHex(Strip(lines[k])))]

\* int16 values the exported arrays are made of.
CoeffVals == {-32768, -32767, -4096, -256, -1, 0, 1, 10, 255, 4095, 32767}

HexInit ==
    /\ hpc = "in" /\ hexfile = <<>> /\ imported = <<>>
    /\ coeffs \in UNION { [1..n -> CoeffVals] : n \in 0..MaxCoeffs }

ExportHex ==
    /\ hpc = "in"
    /\ hexfile' = export_coeffs_hex(coeffs)
    /\ hpc' = "exported"
    /\ UNCHANGED <<coeffs, imported>>
    /\ UNCHANGED notHex

ImportHex ==
    /\ hpc = "exported"
    /\ imported' = import_coeffs_hex(hexfile)
    /\ hpc' = "imported"
    /\ UNCHANGED <<coeffs, hexfile>>
    /\ UNCHANGED notHex

HexNext ==
    \/ ExportHex
    \/ ImportHex

InitHex == HexInit /\ FirIdle /\ QuantIdle /\ FlowIdle

SpecHex == InitHex /\ [][HexNext]_vars

(***************************************************************************)
(* C6 - hex round trip                                                     *)
(***************************************************************************)
IsHexWord(str) ==
    /\ Len(str) = 4
    /\ \A k \in 1..4 : \E d \in 1..16 : str[k] = HexDigits[d]

\* C6: every exported line is the 4 uppercase hex digits of the coefficient's
\* two's-complement pattern, and importing the file returns the exported
\* array, element by element and in order.
C6_HexRoundTrip ==
    /\ hpc \in {"exported", "imported"} =>
          /\ Len(hexfile) = Len(coeffs)
          /\ \A k \in 1..Len(hexfile) :
                /\ IsHexWord(Strip(hexfile[k]))
                /\ ParseHex(Strip(hexfile[k])) = coeffs[k] % 65536
    /\ hpc = "imported" => imported = coeffs

C6_Witness ==
    /\ hpc = "imported"
    /\ coeffs = <<-32768, 255>>
    /\ hexfile = << <<"8", "0", "0", "0", "\n">>, <<"0", "0", "F", "F", "\n">> >>
    /\ imported = <<-32768, 255>>

(***************************************************************************)
(* run_flow (librelane/run_librelane.py)                                   *)
(***************************************************************************)
FLOW_STEPS ==
    << [name |-> "synthesis",          id |-> "Yosys.Synthesis"],
       [name |-> "floorplan",          id |-> "OpenROAD.Floorplan"],
       [name |-> "tap_endcap",         id |-> "OpenROAD.TapEndcapInsertion"],
       [name |-> "io_placement",       id |-> "OpenROAD.IOPlacement"],
       [name |-> "pdn",                id |-> "OpenROAD.GeneratePDN"],
       [name |-> "global_placement",   id |-> "OpenROAD.GlobalPlacement"],
       [name |-> "detailed_placement", id |-> "OpenROAD.DetailedPlacement"],
       [name |-> "cts",                id |-> "OpenROAD.CTS"],
       [name |-> "global_routing",     id |-> "OpenROAD.GlobalRouting"],
       [name |-> "detailed_routing",   id |-> "OpenROAD.DetailedRouting"],
       [name |-> "gds_export",         id |-> "KLayout.StreamOut"] >>

StepNames == { FLOW_STEPS[k].name : k \in 1..Len(FLOW_STEPS) }

\* Python's None, and the truth value of an optional string.
None == "None"
Truthy(str) == str # None /\ str # ""

\* The step names the usage text and the --step help give as examples
\* (lines 11, 12, 15 and 158).
DocExamples == {"synthesis", "floorplan", "routing"}

\* The values run_flow is called with for single_step and until_step.
StepArgs == StepNames \cup DocExamples \cup {None, "", "place"}

\* Index of the first entry of FLOW_STEPS named n, 0 when there is none.
IndexOf(n) ==
    IF n \in StepNames
    THEN CHOOSE k \in 1..Len(FLOW_STEPS) :
             /\ FLOW_STEPS[k].name = n
             /\ \A j \in 1..(k - 1) : FLOW_STEPS[j].name # n
    ELSE 0

\* lines 112-115: the loop appends every entry up to the one named until_step.
UntilPrefix(until) ==
    IF IndexOf(until) = 0 THEN FLOW_STEPS
    ELSE SubSeq(FLOW_STEPS, 1, IndexOf(until))

\* lines 98-121: the steps to run, or the exit with status 1.
SelectSteps_NoCheck(single, until) ==
    IF Truthy(single)
    THEN IF IndexOf(single) = 0
         THEN [exit |-> TRUE, steps |-> <<>>]
         ELSE [exit |-> FALSE, steps |-> <<FLOW_STEPS[IndexOf(single)]>>]
    ELSE IF Truthy(until)
    THEN [exit |-> FALSE, steps |-> UntilPrefix(until)]
    ELSE [exit |-> FALSE, steps |-> FLOW_STEPS]

SelectSteps(single, until) ==
    IF Truthy(single)
    THEN IF IndexOf(single) = 0
         THEN [exit |-> TRUE, steps |-> <<>>]
         ELSE [exit |-> FALSE, steps |-> <<FLOW_STEPS[IndexOf(single)]>>]
    ELSE IF Truthy(until)
    THEN [exit |-> \A k \in 1..Len(UntilPrefix(until)) :
                       UntilPrefix(until)[k].name # until,
          steps |-> UntilPrefix(until)]
    ELSE [exit |-> FALSE, steps |-> FLOW_STEPS]

\* run_step, lines 81-84: the state a step hands on is the state it was
\* given with the step applied to it.
StepOut(state_in, step_id) == Append(state_in, step_id)

FlowInit ==
    /\ fpc = "start"
    /\ single_step \in StepArgs /\ until_step \in StepArgs
    /\ steps_to_run = <<>> /\ state = <<>> /\ nrun = 0

\* lines 92-121: a fresh State and the selection of the steps.
Select ==
    /\ fpc = "start"
    /\ state' = <<>>
    /\ steps_to_run' = SelectSteps(single_step, until_step).steps
    /\ fpc' = IF SelectSteps(single_step, until_step).exit
              THEN "exit1" ELSE "exec"
    /\ UNCHANGED <<single_step, until_step, nrun>>
    /\ UNCHANGED notFlow

\* lines 124-126: the next step runs on the current state and hands on its own.
ExecStep ==
    /\ fpc = "exec" /\ nrun < Len(steps_to_run)
    /\ state' = StepOut(state, steps_to_run[nrun + 1].id)
    /\ nrun' = nrun + 1
    /\ UNCHANGED <<fpc, single_step, until_step, steps_to_run>>
    /\ UNCHANGED notFlow

\* run_step, lines 85-87: the step raises; run_flow is left by the exception.
StepFails ==
    /\ fpc = "exec" /\ nrun < Len(steps_to_run)
    /\ fpc' = "raised"
    /\ UNCHANGED <<single_step, until_step, steps_to_run, state, nrun>>
    /\ UNCHANGED notFlow

\* lines 128-141: every selected step has run.
Complete ==
    /\ fpc = "exec" /\ nrun = Len(steps_to_run)
    /\ fpc' = "complete"
    /\ UNCHANGED <<single_step, until_step, steps_to_run, state, nrun>>
    /\ UNCHANGED notFlow

FlowNext ==
    \/ Select
    \/ ExecStep
    \/ StepFails
    \/ Complete

InitFlow == FlowInit /\ FirIdle /\ QuantIdle /\ HexIdle

SpecFlow == InitFlow /\ [][FlowNext]_vars

(***************************************************************************)
(* C7 - flow step sequencing                                               *)
(***************************************************************************)
AllIds == [k \in 1..Len(FLOW_STEPS) |-> FLOW_STEPS[k].id]

\* The state after the first n steps of FLOW_STEPS, each applied to the
\* state the one before it handed on.
IdsUpTo(n) == SubSeq(AllIds, 1, n)

\* C7: a run of run_flow that no step fails ends having applied, in
\* FLOW_STEPS order and each to the state of the one before: all eleven steps
\* when no selector is given; the steps up to and including S for
\* until_step = S; S alone for single_step = S - for every S that is a name
\* of FLOW_STEPS or one of the documentation's examples.
C7_Sequencing ==
    fpc \in {"complete", "exit1"} =>
        /\ (single_step = None /\ until_step = None)
              => (fpc = "complete" /\ state = AllIds)
        /\ (single_step = None /\ until_step \in StepNames \cup DocExamples)
              => /\ fpc = "complete"
                 /\ \E k \in 1..Len(FLOW_STEPS) :
                       FLOW_STEPS[k].name = until_step /\ state = IdsUpTo(k)
        /\ (until_step = None /\ single_step \in StepNames \cup DocExamples)
              => /\ fpc = "complete"
                 /\ \E k \in 1..Len(FLOW_STEPS) :
                       FLOW_STEPS[k].name = single_step
                       /\ state = <<FLOW_STEPS[k].id>>

\* The same sequencing restricted to the names FLOW_STEPS has: it holds; the
\* documented example "routing" is the only name C7 fails for.
C7_KnownNames ==
    fpc = "complete" =>
        /\ (single_step = None /\ until_step = None) => state = AllIds
        /\ (single_step = None /\ until_step \in StepNames)
              => state = IdsUpTo(IndexOf(until_step))
        /\ (until_step = None /\ single_step \in StepNames)
              => state = <<FLOW_STEPS[IndexOf(single_step)].id>>

(***************************************************************************)
(* C10 - unknown step names                                                *)
(***************************************************************************)
Unknown(str) == str # None /\ str \notin StepNames

\* C10 as stated: called with a single_step or an until_step that names no
\* entry of FLOW_STEPS, run_flow exits before any step is executed.
C10_UnknownRunsNothing_AsStated ==
    (fpc # "start" /\ (Unknown(single_step) \/ Unknown(until_step)))
        => (fpc = "exit1" /\ state = <<>> /\ nrun = 0)

\* The selector run_flow consults: single_step when it is given and not
\* empty, otherwise until_step when it is given and not empty.
Consulted ==
    IF Truthy(single_step) THEN single_step
    ELSE IF Truthy(until_step) THEN until_step
    ELSE None

\* C10 amended: when the selector run_flow consults names no entry of
\* FLOW_STEPS, run_flow exits before any step is executed, and on the
\* until_step path the selection has by then collected every step.
C10_UnknownRunsNothing ==
    (fpc # "start" /\ Unknown(Consulted))
        => /\ fpc = "exit1" /\ state = <<>> /\ nrun = 0
           /\ ~Truthy(single_step) => steps_to_run = FLOW_STEPS

C10_Witness ==
    /\ fpc = "exit1" /\ single_step = None /\ until_step = "routing"
    /\ steps_to_run = FLOW_STEPS /\ state = <<>>

====
